---- MODULE Spec2Model ----
(***************************************************************************)
(* The streaming result consumer of the lead-generation frontend: the      *)
(* LeadsPage component (frontend/app/composables/use-canvas-animation.ts,  *)
(* lines 133-268).  The component keeps three React state cells (messages, *)
(* isComplete, error), opens one EventSource per task id in an effect keyed*)
(* on [taskId], and registers listeners for `status_update`,               *)
(* `final_response` and `error`, plus the onopen / onerror handlers.       *)
(*                                                                         *)
(* Strings built by the code are modelled as sequences of tokens: the      *)
(* concatenation of the tokens is the JavaScript string.  A state update   *)
(* (setMessages / setError / setIsComplete) is applied when the handler    *)
(* that issues it returns: the updaters of messages are functional         *)
(* (prev => [...prev, entry]) and the other two write constants, so the    *)
(* committed state after a batch equals the sequential application.        *)
(***************************************************************************)
EXTENDS Integers, Sequences, FiniteSets, TLC

\* ---------------------------------------------------------------- bounds
MaxEvents == 2
MaxSources == 2

\* ------------------------------------------------------------ JS values
Undefined == "undefined"
NoError == "null"
TaskIds == {"t1", "t2"}

ConnectionLost == "Connection to server lost"
DefaultError == "An error occurred"
ErrorPrefix == "Error: "
GeneratedPrefix == "Lead generation complete! Generated "
GeneratedSuffix == "."
DefaultArtifactName == "leads artifact"
JoinSeparator == "\n\n"
JsonMime == "application/json"

\* Console lines the handlers write.
LogOpened == "SSE connection opened"
LogExtract == "Error extracting text content:"
LogStatus == "Error parsing status update:"
LogFinal == "Error parsing final response:"
LogErrorEvent == "Error parsing error event:"
LogTransport == "SSE connection error:"

\* JS truthiness of a value that is a string or undefined.
Truthy(v) == v # Undefined /\ v # ""

\* ----------------------------------------------------- event payloads
\* The `file` member of a content entry.
NoFile == [present |-> FALSE, mime_type |-> Undefined, filename |-> Undefined]
File(m, n) == [present |-> TRUE, mime_type |-> m, filename |-> n]

\* One entry of the content list: JSON null, a JSON primitive, or an object
\* with optional `text` and `file` members.
NullEntry == [kind |-> "null", text |-> Undefined, file |-> NoFile]
PrimitiveEntry == [kind |-> "primitive", text |-> Undefined, file |-> NoFile]
Part(t, f) == [kind |-> "object", text |-> t, file |-> f]

TextA == Part("a", NoFile)
TextB == Part("b", NoFile)
TextEmpty == Part("", NoFile)
JsonLeads == Part(Undefined, File(JsonMime, "leads.json"))
JsonOther == Part(Undefined, File(JsonMime, "b.json"))
JsonUnnamed == Part(Undefined, File(JsonMime, Undefined))
PdfReport == Part(Undefined, File("application/pdf", "report.pdf"))
TextAndJson == Part("a", File(JsonMime, "leads.json"))

Entries ==
  { NullEntry, PrimitiveEntry, TextA, TextB, TextEmpty,
    JsonLeads, JsonOther, JsonUnnamed, PdfReport, TextAndJson }

\* The content lists the transport delivers: the empty list, every list of
\* one entry, and the two-entry lists that order, mix or break the entries.
ContentLists ==
  {<<>>} \cup {<<e>> : e \in Entries}
  \cup { <<TextA, TextB>>, <<TextB, TextA>>, <<TextEmpty, TextA>>,
         <<TextA, NullEntry>>, <<JsonLeads, NullEntry>>,
         <<JsonOther, JsonLeads>>, <<JsonLeads, JsonOther>>,
         <<PdfReport, JsonLeads>>, <<TextA, PdfReport>>,
         <<JsonLeads, TextB>>, <<TextB, JsonUnnamed>> }

\* event.data as JSON.parse sees it.  shape: "bad_json" (JSON.parse throws),
\* "json_null" (the text `null`), "object".  content: the value of
\* data.result?.status?.message?.content: "absent" (undefined or null anywhere
\* on the path), "not_list" (a non-null value that is no array), "list".
Payload(s, c, items, e) == [shape |-> s, content |-> c, items |-> items, error |-> e]
BadJson == Payload("bad_json", "absent", <<>>, Undefined)
JsonNull == Payload("json_null", "absent", <<>>, Undefined)
NoData == Payload("none", "absent", <<>>, Undefined)

ContentPayloads ==
  {BadJson, JsonNull,
   Payload("object", "absent", <<>>, Undefined),
   Payload("object", "not_list", <<>>, Undefined)}
  \cup {Payload("object", "list", l, Undefined) : l \in ContentLists}

ErrorMessages == {Undefined, "", "quota exceeded"}
ErrorPayloads ==
  {BadJson, JsonNull} \cup {Payload("object", "absent", <<>>, m) : m \in ErrorMessages}

VARIABLES
  mounted,        \* the component instance is alive
  taskId,         \* params.uuid
  messages,       \* useState<AgentMessage[]>([])
  isComplete,     \* useState(false)
  error,          \* useState<string | null>(null)
  sources,        \* every EventSource created so far, in creation order
  eventSourceRef, \* eventSourceRef.current (index into sources, 0 = null)
  cleanup,        \* the source the pending effect cleanup closes (0 = none)
  clock,          \* number of named events dispatched so far
  console,        \* the console lines written so far
  lastEvent,      \* history: the operation that produced this state
  finalOn,        \* history: the sources a final_response was dispatched on
  intake,         \* the intake page: its state cells, its request, its navigation
  received,       \* history: the named events dispatched so far, per kind
  chat            \* the chat component: its refs and its pending timeouts

vars == <<mounted, taskId, messages, isComplete, error, sources, eventSourceRef,
          cleanup, clock, console, lastEvent, finalOn, intake, received, chat>>


\* ------------------------------------------------------- pure helpers
Message(i, c, t, k) == [id |-> i, content |-> c, timestamp |-> t, type |-> k]

\* The React state a handler reads and updates, with the console.
Ui == [messages |-> messages, isComplete |-> isComplete, error |-> error,
       console |-> console]

\* Variant: the entry is put in front, setMessages((prev) => [entry, ...prev]).
AppendMessage_Prepend(ui, c, now, k) ==
  [ui EXCEPT !.messages = <<Message(Len(@) + 1, c, now, k)>> \o @]

\* Variant: the updater adds the entry twice, (prev) => [...prev, entry, entry].
AppendMessage_Twice(ui, c, now, k) ==
  [ui EXCEPT !.messages = @ \o <<Message(Len(@) + 1, c, now, k),
                                  Message(Len(@) + 2, c, now, k)>>]

\* setMessages((prev) => [...prev, {id: crypto.randomUUID(), content, timestamp, type}])
AppendMessage(ui, c, now, k) ==
  [ui EXCEPT !.messages = Append(@, Message(Len(@) + 1, c, now, k))]

\* Variant: the catch block also surfaces the failure as the error state.
Log_Surfaced(ui, tag) == [ui EXCEPT !.console = @ \cup {tag}, !.error = tag]

\* console.error(tag, err) in a catch block.
Log(ui, tag) == [ui EXCEPT !.console = @ \cup {tag}]

HasNullItem(items) == \E i \in 1..Len(items) : items[i].kind = "null"

\* .filter((part) => part.text)
HasText(part) == Truthy(part.text)

\* .map((part) => part.text)
RECURSIVE TextsOf(_)
TextsOf(parts) ==
  IF parts = <<>> THEN <<>> ELSE <<Head(parts).text>> \o TextsOf(Tail(parts))

\* Variant: textParts.join(''), the fragments run together.
Join_NoSeparator(texts) == texts

\* textParts.join('\n\n'), as a token sequence.
RECURSIVE Join(_)
Join(texts) ==
  IF texts = <<>> THEN <<>>
  ELSE IF Len(texts) = 1 THEN texts
  ELSE <<Head(texts), JoinSeparator>> \o Join(Tail(texts))

\* A token sequence denotes '' exactly when all its tokens are ''.
IsEmptyString(tokens) == \A i \in 1..Len(tokens) : tokens[i] = ""

\* extractTextContent(data): null: the function returned null; threw: the
\* catch block ran (data is null, or an entry of the list is null).
extractTextContent(data) ==
  IF data.shape = "json_null" \/ (data.content = "list" /\ HasNullItem(data.items))
    THEN [null |-> TRUE, value |-> <<>>, threw |-> TRUE]
  ELSE IF data.content # "list"
    THEN [null |-> TRUE, value |-> <<>>, threw |-> FALSE]
  ELSE [null |-> FALSE, value |-> Join(TextsOf(SelectSeq(data.items, HasText))),
        threw |-> FALSE]

\* if (content)
ContentTruthy(r) == ~r.null /\ ~IsEmptyString(r.value)

\* The ui after the call of extractTextContent (it logs when it catches).
AfterExtract(ui, data) ==
  IF extractTextContent(data).threw THEN Log(ui, LogExtract) ELSE ui

\* data.result?.status?.message?.content?.filter((part) => part.file) throws a
\* TypeError when data is null, when content is a non-null value without a
\* filter method, and when an entry of the list is null.
ArtifactFilterThrows(data) ==
  \/ data.shape = "json_null"
  \/ data.content = "not_list"
  \/ data.content = "list" /\ HasNullItem(data.items)

HasFile(part) == part.file.present
IsJsonArtifact(a) == a.file.mime_type = JsonMime

\* Variant: the last matching artifact instead of the first.
JsonArtifacts_Last(data) ==
  IF data.content = "list"
    THEN LET js == SelectSeq(SelectSeq(data.items, HasFile), IsJsonArtifact)
         IN  IF js = <<>> THEN <<>> ELSE <<js[Len(js)]>>
    ELSE <<>>

\* artifacts.find((a) => a.file?.mime_type === 'application/json'): the
\* artifacts that match, the first of which find returns.
JsonArtifacts(data) ==
  IF data.content = "list"
    THEN SelectSeq(SelectSeq(data.items, HasFile), IsJsonArtifact)
    ELSE <<>>

\* jsonArtifact.file?.filename || 'leads artifact'
ArtifactName(a) ==
  IF Truthy(a.file.filename) THEN a.file.filename ELSE DefaultArtifactName

GeneratedContent(a) == <<GeneratedPrefix, ArtifactName(a), GeneratedSuffix>>

\* ------------------------------------------------------------ handlers
\* Variant: a non-functional update, setMessages([...messages, entry]), with
\* the messages the effect's closure captured (the empty initial transcript).
StatusUpdateListener_StaleMessages(ui, data, now) ==
  IF data.shape = "bad_json" THEN Log(ui, LogStatus)
  ELSE LET r == extractTextContent(data)
           u == AfterExtract(ui, data)
       IN  IF ContentTruthy(r)
             THEN [u EXCEPT !.messages = <<Message(Len(@) + 1, r.value, now, "status")>>]
             ELSE u

\* Variant: the `if (content)` test is missing, a null or empty result is
\* appended as an entry without text.
StatusUpdateListener_AppendsEmpty(ui, data, now) ==
  IF data.shape = "bad_json" THEN Log(ui, LogStatus)
  ELSE AppendMessage(AfterExtract(ui, data), extractTextContent(data).value, now, "status")

\* addEventListener('status_update', ...)
StatusUpdateListener(ui, data, now) ==
  IF data.shape = "bad_json" THEN Log(ui, LogStatus)
  ELSE LET r == extractTextContent(data)
           u == AfterExtract(ui, data)
       IN  IF ContentTruthy(r) THEN AppendMessage(u, r.value, now, "status") ELSE u

\* Variant: setIsComplete(true) sits inside the artifact branch.
FinalResponseListener_CompletesOnArtifact(ui, data, now) ==
  IF data.shape = "bad_json" THEN Log(ui, LogFinal)
  ELSE LET r == extractTextContent(data)
           u0 == AfterExtract(ui, data)
           u1 == IF ContentTruthy(r) THEN AppendMessage(u0, r.value, now, "final") ELSE u0
       IN  IF ArtifactFilterThrows(data) THEN Log(u1, LogFinal)
           ELSE LET js == JsonArtifacts(data)
                IN  IF js # <<>>
                      THEN [AppendMessage(u1, GeneratedContent(Head(js)), now, "final")
                              EXCEPT !.isComplete = TRUE]
                      ELSE u1

\* Variant: the second update is not functional: it appends to the transcript
\* as it was before the text entry was queued.
FinalResponseListener_StaleSecondAppend(ui, data, now) ==
  IF data.shape = "bad_json" THEN Log(ui, LogFinal)
  ELSE LET r == extractTextContent(data)
           u0 == AfterExtract(ui, data)
           u1 == IF ContentTruthy(r) THEN AppendMessage(u0, r.value, now, "final") ELSE u0
       IN  IF ArtifactFilterThrows(data) THEN Log(u1, LogFinal)
           ELSE LET js == JsonArtifacts(data)
                    u2 == IF js # <<>>
                            THEN [u1 EXCEPT !.messages =
                                    AppendMessage(u0, GeneratedContent(Head(js)),
                                                  now, "final").messages]
                            ELSE u1
                IN  [u2 EXCEPT !.isComplete = TRUE]

\* addEventListener('final_response', ...)
FinalResponseListener(ui, data, now) ==
  IF data.shape = "bad_json" THEN Log(ui, LogFinal)
  ELSE LET r == extractTextContent(data)
           u0 == AfterExtract(ui, data)
           u1 == IF ContentTruthy(r) THEN AppendMessage(u0, r.value, now, "final") ELSE u0
       IN  IF ArtifactFilterThrows(data) THEN Log(u1, LogFinal)
           ELSE LET js == JsonArtifacts(data)
                    u2 == IF js # <<>>
                            THEN AppendMessage(u1, GeneratedContent(Head(js)), now, "final")
                            ELSE u1
                IN  [u2 EXCEPT !.isComplete = TRUE]

\* data.error || 'An error occurred'
ErrorMsg(data) == IF Truthy(data.error) THEN data.error ELSE DefaultError

\* Variant: the error entry is tagged 'final'.
ErrorListener_TagsFinal(ui, hasData, data, now) ==
  IF ~hasData THEN ui
  ELSE IF data.shape \in {"bad_json", "json_null"} THEN Log(ui, LogErrorEvent)
  ELSE AppendMessage([ui EXCEPT !.error = ErrorMsg(data)],
                     <<ErrorPrefix, ErrorMsg(data)>>, now, "final")

\* Variant: the gateway error reaches the error state only, not the transcript.
ErrorListener_BannerOnly(ui, hasData, data, now) ==
  IF ~hasData THEN ui
  ELSE IF data.shape \in {"bad_json", "json_null"} THEN Log(ui, LogErrorEvent)
  ELSE [ui EXCEPT !.error = ErrorMsg(data)]

\* addEventListener('error', ...): the listener sees every event of type
\* `error`: the named server event (a MessageEvent with data) and the
\* transport error (an Event without data, hasData = FALSE).
ErrorListener(ui, hasData, data, now) ==
  IF ~hasData THEN ui
  ELSE IF data.shape \in {"bad_json", "json_null"} THEN Log(ui, LogErrorEvent)
  ELSE AppendMessage([ui EXCEPT !.error = ErrorMsg(data)],
                     <<ErrorPrefix, ErrorMsg(data)>>, now, "error")

\* Variant: onerror also resets the completion flag.
OnErrorHandler_ResetsComplete(ui, seenComplete) ==
  LET u == [ui EXCEPT !.console = @ \cup {LogTransport}, !.isComplete = FALSE]
  IN  IF ~seenComplete THEN [u EXCEPT !.error = ConnectionLost] ELSE u

\* Variant: onerror also records the loss of the connection in the transcript.
OnErrorHandler_AppendsEntry(ui, seenComplete) ==
  LET u == Log(ui, LogTransport)
  IN  IF ~seenComplete
        THEN AppendMessage([u EXCEPT !.error = ConnectionLost],
                           <<ErrorPrefix, ConnectionLost>>, Len(u.messages), "error")
        ELSE u

\* Variant: onerror leaves an error that is already shown in place.
OnErrorHandler_KeepsFirst(ui, seenComplete) ==
  LET u == Log(ui, LogTransport)
  IN  IF ~seenComplete /\ ui.error = NoError THEN [u EXCEPT !.error = ConnectionLost] ELSE u

\* eventSource.onerror, state part: `isComplete` is the value the effect's
\* closure captured when the effect ran (seenComplete), not the current state.
OnErrorHandler(ui, seenComplete) ==
  LET u == Log(ui, LogTransport)
  IN  IF ~seenComplete THEN [u EXCEPT !.error = ConnectionLost] ELSE u

\* Variant: without close() the browser leaves a failed source reconnecting.
Close_Reconnecting(srcs, c) ==
  IF c \in DOMAIN srcs /\ srcs[c].readyState # "closed"
    THEN [srcs EXCEPT ![c].readyState = "connecting"] ELSE srcs

\* Variant: if (eventSource.readyState === EventSource.OPEN) eventSource.close()
Close_OnlyOpen(srcs, c) ==
  IF c \in DOMAIN srcs /\ srcs[c].readyState = "open"
    THEN [srcs EXCEPT ![c].readyState = "closed"] ELSE srcs

\* eventSource.close()
Close(srcs, c) ==
  IF c \in DOMAIN srcs THEN [srcs EXCEPT ![c].readyState = "closed"] ELSE srcs

\* new EventSource(getSSEUrl(taskId)) inside the effect: the handlers close
\* over the isComplete of the render that ran the effect.
NewSource(t, seen) == [taskId |-> t, readyState |-> "connecting", isComplete |-> seen]

Commit(ui) ==
  /\ messages' = ui.messages
  /\ isComplete' = ui.isComplete
  /\ error' = ui.error
  /\ console' = ui.console

Event(k, c, d) == [kind |-> k, source |-> c, data |-> d]

\* ------------------------------------------------------------- actions
\* ---------------------------------------------------------- intake page
\* Text inputs are sequences of characters; the alphabet has one letter per
\* role: "a" and "b" for text, "," the separator, " " for whitespace.
ValidationError == "Please fill in all required fields"
SubmitFallback == "Failed to submit request"
SubmitFailedPrefix == "Failed to submit request: "
FetchFailed == "Failed to fetch"
BodyUnreadable == "Unexpected end of JSON input"
NoResultMessage == "Cannot read properties of undefined (reading 'id')"
DefaultLeadCount == 25

TextInputs == {<<>>, <<" ">>, <<"a">>}
ListInputs == {<<>>, <<" ", ",", " ">>, <<" ", "a", ",", "b">>, <<"a", ",", ",", " ">>}
OptionalInputs == {<<>>, <<"a", ",", "b">>}
LeadCountInputs == {<<>>, <<0>>, <<5>>}

\* String.prototype.split(',')
RECURSIVE Split(_)
Split(s) ==
  IF \A i \in 1..Len(s) : s[i] # "," THEN <<s>>
  ELSE LET k == CHOOSE i \in 1..Len(s) :
                  s[i] = "," /\ \A j \in 1..(i - 1) : s[j] # ","
       IN  <<SubSeq(s, 1, k - 1)>> \o Split(SubSeq(s, k + 1, Len(s)))

\* Variant: the items are not trimmed.
Trim_Identity(s) == s

\* String.prototype.trim()
RECURSIVE Trim(_)
Trim(s) ==
  IF s = <<>> THEN s
  ELSE IF Head(s) = " " THEN Trim(Tail(s))
  ELSE IF s[Len(s)] = " " THEN Trim(SubSeq(s, 1, Len(s) - 1))
  ELSE s

\* input.split(',').map(s => s.trim()).filter(s => s.length > 0)
RECURSIVE NonEmptyItems(_)
NonEmptyItems(parts) ==
  IF parts = <<>> THEN <<>>
  ELSE IF Len(Trim(Head(parts))) > 0
         THEN <<Trim(Head(parts))>> \o NonEmptyItems(Tail(parts))
         ELSE NonEmptyItems(Tail(parts))

ParseList(input) == NonEmptyItems(Split(input))

\* parseInt(e.target.value) || 25, on a sequence of decimal digits
RECURSIVE ParseInt(_)
ParseInt(digits) ==
  IF digits = <<>> THEN 0
  ELSE 10 * ParseInt(SubSeq(digits, 1, Len(digits) - 1)) + digits[Len(digits)]

LeadCountOf(digits) ==
  IF digits = <<>> \/ ParseInt(digits) = 0 THEN DefaultLeadCount ELSE ParseInt(digits)

\* const finalData = {...formData, target_industries, services, selling_points}
FinalData(page) ==
  [freelancer_type   |-> page.formData.freelancer_type,
   location          |-> page.formData.location,
   lead_count        |-> page.formData.lead_count,
   target_industries |-> ParseList(page.industriesInput),
   services          |-> ParseList(page.servicesInput),
   selling_points    |-> ParseList(page.sellingPointsInput)]

\* !freelancer_type || !location || services.length === 0
Invalid(data) ==
  \/ data.freelancer_type = <<>>
  \/ data.location = <<>>
  \/ Len(data.services) = 0

\* What the gateway answers to the POST.
Body(shape, id) == [shape |-> shape, id |-> id]
EmptyBody == Body("bad_json", Undefined)
Bodies ==
  {EmptyBody, Body("no_result", Undefined), Body("result", Undefined)}
    \cup {Body("result", t) : t \in TaskIds}
Http(ok, statusText, body) ==
  [kind |-> "http", ok |-> ok, statusText |-> statusText, body |-> body]
NetworkFailure == [kind |-> "network", ok |-> FALSE, statusText |-> "", body |-> EmptyBody]
NoResponse == [kind |-> "none", ok |-> FALSE, statusText |-> "", body |-> EmptyBody]
FailureStatusTexts == {"", "Not Found", "Internal Server Error"}
Responses ==
  {NetworkFailure}
    \cup {Http(FALSE, st, b) : st \in FailureStatusTexts, b \in {EmptyBody, Body("result", "t1")}}
    \cup {Http(TRUE, "OK", b) : b \in Bodies}

Thrown(m) == [threw |-> TRUE, message |-> m, value |-> Undefined]
Returned(v) == [threw |-> FALSE, message |-> "", value |-> v]

\* Variant: the response's ok flag is not looked at.
submitLeadRequest_IgnoresStatus(response) ==
  IF response.kind = "network" THEN Thrown(FetchFailed)
  ELSE IF response.body.shape = "bad_json" THEN Thrown(BodyUnreadable)
  ELSE IF response.body.shape = "no_result" THEN Thrown(NoResultMessage)
  ELSE Returned(response.body.id)

\* submitLeadRequest, from the moment fetch settles
submitLeadRequest(response) ==
  IF response.kind = "network" THEN Thrown(FetchFailed)
  ELSE IF ~response.ok THEN Thrown(SubmitFailedPrefix \o response.statusText)
  ELSE IF response.body.shape = "bad_json" THEN Thrown(BodyUnreadable)
  ELSE IF response.body.shape = "no_result" THEN Thrown(NoResultMessage)
  ELSE Returned(response.body.id)

IntakeInitial ==
  [pc                 |-> "idle",
   loading            |-> FALSE,
   error              |-> NoError,
   formData           |-> [freelancer_type |-> <<>>, location |-> <<>>,
                           lead_count |-> DefaultLeadCount],
   industriesInput    |-> <<>>,
   servicesInput      |-> <<>>,
   sellingPointsInput |-> <<>>,
   inflight           |-> {},
   pushed             |-> {},
   response           |-> NoResponse,   \* history: the answer to the last attempt
   last               |-> "load"]       \* history: the handler that ran last

\* ------------------------------------------------------- chat component
SimulatedResponse ==
  "This is a simulated response. Connect to an AI API to get real responses."

\* Contents are sequences of characters, the fixed answer is one token.
\* What the textarea can hold: nothing, whitespace, text with blanks around.
ChatInputs == {<<>>, <<" ">>, <<" ", "a", " ">>, <<"b">>}

ChatMessage(role, content) == [role |-> role, content |-> content]

ChatInitial ==
  [messages    |-> <<>>,
   input       |-> <<>>,
   isListening |-> FALSE,
   timers      |-> 0,         \* the setTimeout callbacks that have not run yet
   last        |-> "load"]    \* history: the handler that ran last

\* Variant: the guard is `if (!input.value) return`, without trim().
ChatHandleSubmit_NoTrim(c) ==
  IF c.input = <<>> THEN [c EXCEPT !.last = "blank"]
  ELSE [c EXCEPT !.messages = Append(@, ChatMessage("user", Trim(c.input))),
                 !.input = <<>>,
                 !.timers = @ + 1,
                 !.last = "submit"]

\* handleSubmit() of the chat component
ChatHandleSubmit(c) ==
  IF Trim(c.input) = <<>> THEN [c EXCEPT !.last = "blank"]
  ELSE [c EXCEPT !.messages = Append(@, ChatMessage("user", Trim(c.input))),
                 !.input = <<>>,
                 !.timers = @ + 1,
                 !.last = "submit"]

NoneReceived == [status_update |-> 0, final_response |-> 0, error |-> 0]

Init ==
  /\ mounted = TRUE
  /\ taskId = "t1"
  /\ messages = <<>>
  /\ isComplete = FALSE
  /\ error = NoError
  /\ sources = <<NewSource("t1", FALSE)>>
  /\ eventSourceRef = 1
  /\ cleanup = 1
  /\ clock = 0
  /\ console = {}
  /\ lastEvent = Event("mount", 1, NoData)
  /\ finalOn = {}
  /\ intake = IntakeInitial
  /\ received = NoneReceived
  /\ chat = ChatInitial

\* Variant: a closed source reconnects and opens again.
Open_Reopens(c) ==
  /\ c \in DOMAIN sources
  /\ sources[c].readyState \in {"connecting", "closed"}
  /\ mounted
  /\ sources' = [sources EXCEPT ![c].readyState = "open"]
  /\ console' = console \cup {LogOpened}
  /\ lastEvent' = Event("open", c, NoData)
  /\ UNCHANGED <<intake, chat, received, mounted, taskId, messages, isComplete, error, eventSourceRef,
                 cleanup, clock, finalOn>>

\* eventSource.onopen
Open(c) ==
  /\ c \in DOMAIN sources
  /\ sources[c].readyState = "connecting"
  /\ sources' = [sources EXCEPT ![c].readyState = "open"]
  /\ console' = console \cup {LogOpened}
  /\ lastEvent' = Event("open", c, NoData)
  /\ UNCHANGED <<intake, chat, received, mounted, taskId, messages, isComplete, error, eventSourceRef,
                 cleanup, clock, finalOn>>

\* The dispatch of a named `status_update` event to its listener.
StatusUpdateStep(c, data) ==
  /\ c \in DOMAIN sources
  /\ sources[c].readyState = "open"
  /\ clock' = clock + 1
  /\ Commit(StatusUpdateListener(Ui, data, clock + 1))
  /\ lastEvent' = Event("status_update", c, data)
  /\ received' = [received EXCEPT !.status_update = @ + 1]
  /\ UNCHANGED <<intake, chat, mounted, taskId, sources, eventSourceRef, cleanup, finalOn>>

\* The transport delivers a named `status_update` event.
StatusUpdate(c, data) == clock < MaxEvents /\ StatusUpdateStep(c, data)

\* The dispatch of a named `final_response` event to its listener.
FinalResponseStep(c, data) ==
  /\ c \in DOMAIN sources
  /\ sources[c].readyState = "open"
  /\ clock' = clock + 1
  /\ Commit(FinalResponseListener(Ui, data, clock + 1))
  /\ lastEvent' = Event("final_response", c, data)
  /\ received' = [received EXCEPT !.final_response = @ + 1]
  /\ finalOn' = finalOn \cup {c}
  /\ UNCHANGED <<intake, chat, mounted, taskId, sources, eventSourceRef, cleanup>>

\* The transport delivers a named `final_response` event.
FinalResponse(c, data) == clock < MaxEvents /\ FinalResponseStep(c, data)

\* The transport delivers a named `error` event (non-empty data): it is
\* dispatched to the `error` listener and then to onerror, which closes.
ErrorEvent(c, data) ==
  /\ c \in DOMAIN sources
  /\ sources[c].readyState = "open"
  /\ clock < MaxEvents
  /\ clock' = clock + 1
  /\ Commit(OnErrorHandler(ErrorListener(Ui, TRUE, data, clock + 1),
                           sources[c].isComplete))
  /\ sources' = Close(sources, c)
  /\ lastEvent' = Event("error", c, data)
  /\ received' = [received EXCEPT !.error = @ + 1]
  /\ UNCHANGED <<intake, chat, mounted, taskId, eventSourceRef, cleanup, finalOn>>

\* The connection fails: an `error` Event without data is dispatched to the
\* `error` listener and then to onerror, which closes.
TransportError(c) ==
  /\ c \in DOMAIN sources
  /\ sources[c].readyState \in {"connecting", "open"}
  /\ Commit(OnErrorHandler(ErrorListener(Ui, FALSE, NoData, clock),
                           sources[c].isComplete))
  /\ sources' = Close(sources, c)
  /\ lastEvent' = Event("transport_error", c, NoData)
  /\ UNCHANGED <<intake, chat, received, mounted, taskId, eventSourceRef, cleanup, clock, finalOn>>

\* Variant: the effect starts the new task from a blank view.
Resubscribe_ResetsState(t) ==
  /\ mounted
  /\ t # taskId
  /\ Len(sources) < MaxSources
  /\ taskId' = t
  /\ sources' = Append(Close(sources, cleanup), NewSource(t, FALSE))
  /\ cleanup' = Len(sources) + 1
  /\ eventSourceRef' = Len(sources) + 1
  /\ lastEvent' = Event("resubscribe", cleanup, NoData)
  /\ messages' = <<>>
  /\ isComplete' = FALSE
  /\ error' = NoError
  /\ UNCHANGED <<intake, chat, received, mounted, clock, console, finalOn>>

\* Variant: the effect returns no cleanup, the previous source stays as it is.
Resubscribe_Leaks(t) ==
  /\ mounted
  /\ t # taskId
  /\ Len(sources) < MaxSources
  /\ taskId' = t
  /\ sources' = Append(sources, NewSource(t, isComplete))
  /\ cleanup' = Len(sources) + 1
  /\ eventSourceRef' = Len(sources) + 1
  /\ lastEvent' = Event("resubscribe", cleanup, NoData)
  /\ UNCHANGED <<intake, chat, received, mounted, messages, isComplete, error, clock, console, finalOn>>

\* params.uuid changes: the previous effect's cleanup runs, then the effect
\* runs again (useEffect(..., [taskId])).  The uuid of the route
\* /leads/[uuid] is never empty, so `if (!taskId) return` is never taken.
Resubscribe(t) ==
  /\ mounted
  /\ t # taskId
  /\ Len(sources) < MaxSources
  /\ taskId' = t
  /\ sources' = Append(Close(sources, cleanup), NewSource(t, isComplete))
  /\ cleanup' = Len(sources) + 1
  /\ eventSourceRef' = Len(sources) + 1
  /\ lastEvent' = Event("resubscribe", cleanup, NoData)
  /\ UNCHANGED <<intake, chat, received, mounted, messages, isComplete, error, clock, console, finalOn>>

\* The component unmounts: the effect's cleanup runs.
Unmount ==
  /\ mounted
  /\ mounted' = FALSE
  /\ sources' = Close(sources, cleanup)
  /\ cleanup' = 0
  /\ lastEvent' = Event("unmount", cleanup, NoData)
  /\ UNCHANGED <<intake, chat, received, taskId, messages, isComplete, error, eventSourceRef, clock, console,
                 finalOn>>

Next ==
  \/ \E c \in 1..MaxSources : Open(c)
  \/ \E c \in 1..MaxSources, d \in ContentPayloads : StatusUpdate(c, d)
  \/ \E c \in 1..MaxSources, d \in ContentPayloads : FinalResponse(c, d)
  \/ \E c \in 1..MaxSources, d \in ErrorPayloads : ErrorEvent(c, d)
  \/ \E c \in 1..MaxSources : TransportError(c)
  \/ \E t \in TaskIds : Resubscribe(t)
  \/ Unmount

Spec == Init /\ [][Next]_vars

\* ------------------------------------------------- end-to-end scenario
\* One freshly opened stream that delivers status_update events with a text
\* fragment and then one final_response with a text fragment and no
\* artifact.
MaxStatusUpdates == 3

TextDone == Part("Done", NoFile)
ScenarioStatusPayloads ==
  {Payload("object", "list", l, Undefined) :
     l \in {<<TextA>>, <<TextB>>, <<TextA, TextB>>, <<PrimitiveEntry, TextA>>}}
ScenarioFinalPayloads ==
  {Payload("object", "list", l, Undefined) : l \in {<<TextDone>>, <<TextA, TextB>>}}

ScenarioStatus(d) ==
  /\ finalOn = {}
  /\ clock < MaxStatusUpdates
  /\ StatusUpdateStep(1, d)

ScenarioFinal(d) ==
  /\ finalOn = {}
  /\ FinalResponseStep(1, d)

ScenarioNext ==
  \/ Open(1)
  \/ \E d \in ScenarioStatusPayloads : ScenarioStatus(d)
  \/ \E d \in ScenarioFinalPayloads : ScenarioFinal(d)

SpecScenario == Init /\ [][ScenarioNext]_vars

\* --------------------------------------------------- intake page actions
leadsVars == <<mounted, taskId, messages, isComplete, error, sources, eventSourceRef,
               cleanup, clock, console, lastEvent, finalOn, received>>

\* The intake page is loaded; no results view exists yet.
InitIntake ==
  /\ intake = IntakeInitial
  /\ mounted = FALSE
  /\ taskId = Undefined
  /\ messages = <<>>
  /\ isComplete = FALSE
  /\ error = NoError
  /\ sources = <<>>
  /\ eventSourceRef = 0
  /\ cleanup = 0
  /\ clock = 0
  /\ console = {}
  /\ lastEvent = Event("load", 0, NoData)
  /\ finalOn = {}
  /\ received = NoneReceived
  /\ chat = ChatInitial

Displayed == intake.pc \in {"idle", "awaiting"}

\* onChange of the freelancer_type input
EditFreelancerType(v) ==
  /\ Displayed
  /\ intake' = [intake EXCEPT !.formData.freelancer_type = v, !.last = "edit"]
  /\ UNCHANGED <<leadsVars, chat>>

\* onChange of the location input
EditLocation(v) ==
  /\ Displayed
  /\ intake' = [intake EXCEPT !.formData.location = v, !.last = "edit"]
  /\ UNCHANGED <<leadsVars, chat>>

\* onChange of the services input
EditServices(v) ==
  /\ Displayed
  /\ intake' = [intake EXCEPT !.servicesInput = v, !.last = "edit"]
  /\ UNCHANGED <<leadsVars, chat>>

\* onChange of the industries input
EditIndustries(v) ==
  /\ Displayed
  /\ intake' = [intake EXCEPT !.industriesInput = v, !.last = "edit"]
  /\ UNCHANGED <<leadsVars, chat>>

\* onChange of the selling_points input
EditSellingPoints(v) ==
  /\ Displayed
  /\ intake' = [intake EXCEPT !.sellingPointsInput = v, !.last = "edit"]
  /\ UNCHANGED <<leadsVars, chat>>

\* onChange of the lead_count input
EditLeadCount(digits) ==
  /\ Displayed
  /\ intake' = [intake EXCEPT !.formData.lead_count = LeadCountOf(digits), !.last = "edit"]
  /\ UNCHANGED <<leadsVars, chat>>

\* handleSubmit up to its await; the submit button is disabled while loading.
HandleSubmit ==
  /\ intake.pc = "idle"
  /\ ~intake.loading
  /\ LET data == FinalData(intake)
     IN  intake' = IF Invalid(data)
                     THEN [intake EXCEPT !.error = ValidationError, !.loading = FALSE,
                                         !.response = NoResponse, !.last = "submit"]
                     ELSE [intake EXCEPT !.error = NoError, !.loading = TRUE,
                                         !.pc = "awaiting", !.inflight = {data},
                                         !.response = NoResponse, !.last = "submit"]
  /\ UNCHANGED <<leadsVars, chat>>

\* The request settles and handleSubmit resumes after its await.
Respond(response) ==
  /\ intake.pc = "awaiting"
  /\ LET r == submitLeadRequest(response)
     IN  intake' = IF r.threw
                     THEN [intake EXCEPT !.error = r.message, !.loading = FALSE,
                                         !.pc = "idle", !.inflight = {},
                                         !.response = response, !.last = "response"]
                     ELSE [intake EXCEPT !.pushed = {r.value}, !.pc = "navigated",
                                         !.inflight = {}, !.response = response,
                                         !.last = "response"]
  /\ UNCHANGED <<leadsVars, chat>>

\* The router renders /leads/[uuid]: LeadsPage mounts and its effect runs.
MountLeads ==
  /\ intake.pc = "navigated"
  /\ ~mounted
  /\ sources = <<>>
  /\ \E t \in intake.pushed :
       /\ taskId' = t
       /\ sources' = <<NewSource(t, isComplete)>>
  /\ mounted' = TRUE
  /\ eventSourceRef' = 1
  /\ cleanup' = 1
  /\ lastEvent' = Event("mount", 1, NoData)
  /\ UNCHANGED <<intake, chat, received, messages, isComplete, error, clock, console, finalOn>>

NextIntake ==
  \/ \E v \in TextInputs : EditFreelancerType(v)
  \/ \E v \in TextInputs : EditLocation(v)
  \/ \E v \in ListInputs : EditServices(v)
  \/ \E v \in OptionalInputs : EditIndustries(v)
  \/ \E v \in OptionalInputs : EditSellingPoints(v)
  \/ \E v \in LeadCountInputs : EditLeadCount(v)
  \/ HandleSubmit
  \/ \E r \in Responses : Respond(r)
  \/ MountLeads
  \/ Open(1)

SpecIntake == InitIntake /\ [][NextIntake]_vars

\* ------------------------------------------------ chat component actions
MaxSubmits == 3

UserCount(c) == Cardinality({i \in 1..Len(c.messages) : c.messages[i].role = "user"})
AssistantCount(c) ==
  Cardinality({i \in 1..Len(c.messages) : c.messages[i].role = "assistant"})

\* The chat component is set up; no other page is in use.
InitChat ==
  /\ chat = ChatInitial
  /\ intake = IntakeInitial
  /\ mounted = FALSE
  /\ taskId = Undefined
  /\ messages = <<>>
  /\ isComplete = FALSE
  /\ error = NoError
  /\ sources = <<>>
  /\ eventSourceRef = 0
  /\ cleanup = 0
  /\ clock = 0
  /\ console = {}
  /\ lastEvent = Event("load", 0, NoData)
  /\ finalOn = {}
  /\ received = NoneReceived

\* v-model="input": the user edits the textarea.
ChatType(v) ==
  /\ v # chat.input
  /\ chat' = [chat EXCEPT !.input = v, !.last = "type"]
  /\ UNCHANGED <<leadsVars, intake>>

\* @click="handleSubmit" of the send button, :disabled="!input.trim()"
ChatClickSend ==
  /\ Trim(chat.input) # <<>>
  /\ UserCount(chat) < MaxSubmits
  /\ chat' = ChatHandleSubmit(chat)
  /\ UNCHANGED <<leadsVars, intake>>

\* handleKeyDown: Enter without Shift submits, any other key does nothing.
ChatKeyDown(key, shiftKey) ==
  /\ key = "Enter" /\ ~shiftKey /\ Trim(chat.input) # <<>> => UserCount(chat) < MaxSubmits
  /\ chat' = IF key = "Enter" /\ ~shiftKey
               THEN ChatHandleSubmit(chat)
               ELSE [chat EXCEPT !.last = "key"]
  /\ UNCHANGED <<leadsVars, intake>>

\* toggleListening
ChatToggleListening ==
  /\ chat' = [chat EXCEPT !.isListening = ~@, !.last = "toggle"]
  /\ UNCHANGED <<leadsVars, intake>>

\* A setTimeout callback runs.
ChatTimerFires ==
  /\ chat.timers > 0
  /\ chat' = [chat EXCEPT !.messages = Append(@, ChatMessage("assistant", <<SimulatedResponse>>)),
                          !.timers = @ - 1,
                          !.last = "timer"]
  /\ UNCHANGED <<leadsVars, intake>>

NextChat ==
  \/ \E v \in ChatInputs : ChatType(v)
  \/ ChatClickSend
  \/ \E key \in {"Enter", "a"}, shiftKey \in BOOLEAN : ChatKeyDown(key, shiftKey)
  \/ ChatToggleListening
  \/ ChatTimerFires

\* A scheduled timeout runs after its delay: weak fairness on its firing.
SpecChat == InitChat /\ [][NextChat]_vars /\ WF_vars(ChatTimerFires)

\* ================================================================ claims
NamedEvents == {"status_update", "final_response", "error"}
TransportEvents == NamedEvents \cup {"open", "transport_error"}

\* new is old with entries added at the end.
Extends(old, new) == Len(new) >= Len(old) /\ SubSeq(new, 1, Len(old)) = old
Added(old, new) == SubSeq(new, Len(old) + 1, Len(new))
Contains(tokens, t) == \E i \in 1..Len(tokens) : tokens[i] = t
IsSynthetic(m) == m.content # <<>> /\ m.content[1] = GeneratedPrefix

\* The step is the dispatch of an event of kind k.
Dispatched(k) == lastEvent'.kind = k /\ (clock' # clock \/ sources' # sources)

\* ---------------------------------------------------------------- C1
\* C1: a transport error that arrives when the completion flag is true, a
\* final_response having been handled earlier on the same subscription,
\* leaves the error state exactly as it was.
C1_TransportErrorAfterCompletion ==
  [][ ( /\ Dispatched("transport_error")
        /\ isComplete
        /\ lastEvent'.source \in finalOn )
      => error' = error ]_vars

\* ---------------------------------------------------------------- C2
\* C2: after a named `error` event whose JSON body has a non-empty `error`
\* message (all handlers of the `error` type having run), the error state is
\* that message and the transcript gained exactly one `error` entry whose
\* content contains it.
C2_GatewayErrorSurfaced ==
  [][ ( /\ Dispatched("error")
        /\ lastEvent'.data.shape = "object"
        /\ Truthy(lastEvent'.data.error) )
      => /\ error' = lastEvent'.data.error
         /\ Extends(messages, messages')
         /\ Len(messages') = Len(messages) + 1
         /\ messages'[Len(messages')].type = "error"
         /\ Contains(messages'[Len(messages')].content, lastEvent'.data.error) ]_vars

\* ---------------------------------------------------------------- C3
\* C3: handling a named `error` event with a JSON body leaves the connection
\* open (so later status_update / final_response events are still handled).
C3_GatewayErrorKeepsOpen ==
  [][ ( /\ Dispatched("error")
        /\ lastEvent'.data.shape = "object" )
      => sources'[lastEvent'.source].readyState = "open" ]_vars

\* ---------------------------------------------------------------- C4
\* C4: after any final_response whose payload parses to a JSON object, the
\* completion flag is true, whatever the content member is (absent, empty,
\* not a list, a list with entries that are not objects).
C4_FinalAlwaysCompletes ==
  [][ ( /\ Dispatched("final_response")
        /\ lastEvent'.data.shape = "object" )
      => isComplete' ]_vars

\* ---------------------------------------------------------------- C5
\* C5: a status_update or final_response whose payload does not parse
\* changes nothing: transcript, error state, completion flag and every
\* connection are as before, and the connection it came on is still open.
C5_MalformedEventIgnored ==
  [][ ( /\ lastEvent'.kind \in {"status_update", "final_response"}
        /\ clock' # clock
        /\ lastEvent'.data.shape = "bad_json" )
      => /\ messages' = messages
         /\ error' = error
         /\ isComplete' = isComplete
         /\ sources' = sources
         /\ sources'[lastEvent'.source].readyState = "open" ]_vars

\* C5 witness: a malformed status_update was logged, and a later
\* status_update on the same (only) connection was appended.
C5_Witness ==
  /\ LogStatus \in console
  /\ Len(sources) = 1
  /\ lastEvent.kind = "status_update"
  /\ lastEvent.data.shape = "object"
  /\ clock = 2
  /\ Len(messages) = 1
  /\ messages[1].timestamp = 2
  /\ error = NoError
  /\ ~isComplete

\* ---------------------------------------------------------------- C6
\* C6: a named `error` event whose non-empty body does not parse leaves the
\* transcript unchanged, sets no error state and leaves the stream open.
C6_MalformedErrorEventIgnored ==
  [][ ( /\ Dispatched("error")
        /\ lastEvent'.data.shape = "bad_json" )
      => /\ messages' = messages
         /\ error' = error
         /\ sources'[lastEvent'.source].readyState = "open" ]_vars

\* ---------------------------------------------------------------- C7
\* C7: a transport error while the completion flag is false sets the error
\* state to the non-empty connection-lost message and closes the connection;
\* no source is created in its place, a closed connection stays closed, and
\* no event is dispatched on a closed connection.
C7_TransportErrorBeforeCompletion ==
  [][ /\ ( Dispatched("transport_error") /\ ~isComplete )
         => /\ error' = ConnectionLost
            /\ error' \notin {NoError, ""}
            /\ sources'[lastEvent'.source].readyState = "closed"
            /\ Len(sources') = Len(sources)
      /\ \A c \in DOMAIN sources :
           sources[c].readyState = "closed"
           => /\ c \in DOMAIN sources'
              /\ sources'[c].readyState = "closed"
              /\ ~ ( /\ lastEvent'.kind \in TransportEvents
                     /\ lastEvent'.source = c
                     /\ (clock' # clock \/ sources' # sources) ) ]_vars

\* C7 witness: the connection was lost before completion.
C7_Witness ==
  /\ lastEvent.kind = "transport_error"
  /\ ~isComplete
  /\ error = ConnectionLost
  /\ sources[lastEvent.source].readyState = "closed"

\* ---------------------------------------------------------------- C8
\* C8: the completion flag starts false, only a final_response sets it, and
\* once true it stays true through every later step.
C8_CompletionMonotonic ==
  /\ isComplete = FALSE
  /\ [][ /\ isComplete => isComplete'
         /\ (~isComplete /\ isComplete') => Dispatched("final_response") ]_vars

\* C8 witness: the flag is still true after completion was followed by a
\* re-subscription and a transport error on the new connection.
C8_Witness ==
  /\ isComplete
  /\ Len(sources) = 2
  /\ lastEvent.kind = "transport_error"
  /\ lastEvent.source = 2

\* ---------------------------------------------------------------- C9
\* The entries of the content list of a parsed payload.
ItemsOf(data) == IF data.shape = "object" /\ data.content = "list" THEN data.items ELSE <<>>

\* The transcript grew by exactly one `status` entry, stamped with this arrival.
OneStatusEntryAdded ==
  /\ Extends(messages, messages')
  /\ Len(messages') = Len(messages) + 1
  /\ messages'[Len(messages')].type = "status"
  /\ messages'[Len(messages')].timestamp = clock'

\* C9 (as claimed): every status_update whose payload parses and whose
\* content list has an entry on which a `text` field is present adds exactly
\* one `status` entry.
C9_TextPresentAddsOne ==
  [][ ( /\ Dispatched("status_update")
        /\ \E i \in 1..Len(ItemsOf(lastEvent'.data)) :
             /\ ItemsOf(lastEvent'.data)[i].kind = "object"
             /\ ItemsOf(lastEvent'.data)[i].text # Undefined )
      => OneStatusEntryAdded ]_vars

\* C9 (amended): every status_update whose payload parses, whose content
\* list has no null entry and has an entry whose `text` is a non-empty
\* string, adds exactly one `status` entry, in arrival order; a status_update
\* whose text fragments are all empty or absent, or whose list has a null
\* entry, adds nothing.
C9_NonEmptyTextAddsOne ==
  [][ Dispatched("status_update")
      => LET items == ItemsOf(lastEvent'.data)
             someText == \E i \in 1..Len(items) : Truthy(items[i].text)
         IN  IF someText /\ ~HasNullItem(items)
               THEN OneStatusEntryAdded
               ELSE messages' = messages ]_vars

\* C9 witness: two status_update events with text, two status entries in
\* arrival order.
C9_Witness ==
  /\ lastEvent.kind = "status_update"
  /\ lastEvent.data.items = <<TextEmpty, TextA>>
  /\ Len(messages) = 2
  /\ messages[1].type = "status" /\ messages[1].timestamp = 1
  /\ messages[2].type = "status" /\ messages[2].timestamp = 2
  /\ messages[2].content = <<"a">>

\* --------------------------------------------------------------- C10
\* The JSON artifacts of a payload, read off the list entries.
FileEntries(data) ==
  { i \in 1..Len(ItemsOf(data)) :
      /\ ItemsOf(data)[i].file.present
      /\ ItemsOf(data)[i].file.mime_type = JsonMime }
FirstFileEntry(data) ==
  ItemsOf(data)[CHOOSE i \in FileEntries(data) : \A j \in FileEntries(data) : i <= j]

\* The entries this step added end with exactly one synthetic entry, of kind
\* `final`, naming the first JSON artifact; before it at most the text entry.
OneSyntheticEntryAdded ==
  LET added == Added(messages, messages')
      n == Len(added)
      first == FirstFileEntry(lastEvent'.data)
  IN  /\ Extends(messages, messages')
      /\ n \in {1, 2}
      /\ IsSynthetic(added[n])
      /\ added[n].type = "final"
      /\ Truthy(first.file.filename) => Contains(added[n].content, first.file.filename)
      /\ n = 2 => ( /\ ~IsSynthetic(added[1])
                    /\ added[1].type = "final"
                    /\ added[1].content = extractTextContent(lastEvent'.data).value )

\* C10 (as claimed): a final_response whose content list has a file entry of
\* MIME type application/json adds, after the text entry if any, exactly one
\* synthetic `final` entry naming the first such artifact.
C10_JsonArtifactAnnounced ==
  [][ ( /\ Dispatched("final_response")
        /\ FileEntries(lastEvent'.data) # {} )
      => OneSyntheticEntryAdded ]_vars

\* C10 (amended): the same, for content lists none of whose entries is null.
C10_JsonArtifactAnnouncedNoNull ==
  [][ ( /\ Dispatched("final_response")
        /\ FileEntries(lastEvent'.data) # {}
        /\ ~HasNullItem(ItemsOf(lastEvent'.data)) )
      => OneSyntheticEntryAdded ]_vars

\* C10 witness: two JSON artifacts, one synthetic entry naming the first.
C10_Witness ==
  /\ lastEvent.kind = "final_response"
  /\ lastEvent.data.items = <<JsonOther, JsonLeads>>
  /\ Len(messages) = 1
  /\ Contains(messages[1].content, "b.json")
  /\ isComplete

\* --------------------------------------------------------------- C11
\* C11: the transcript is append-only and ordered by arrival: every step
\* leaves the old transcript as a prefix of the new one, the entries a step
\* adds carry the arrival stamp of the event handled, no older entry carries
\* a later stamp, and of the two entries a final_response may add the text
\* entry comes before the synthetic artifact entry.
C11_AppendOnlyInArrivalOrder ==
  [][ LET added == Added(messages, messages')
      IN  /\ Extends(messages, messages')
          /\ \A i \in 1..Len(added) : added[i].timestamp = clock'
          /\ \A i \in 1..Len(messages) : messages[i].timestamp <= clock
          /\ added # <<>> => lastEvent'.kind \in NamedEvents /\ clock' = clock + 1
          /\ Len(added) <= 2
          /\ Len(added) = 2 => ~IsSynthetic(added[1]) /\ IsSynthetic(added[2]) ]_vars

\* C11 witness: a status entry, then the text entry and the synthetic entry
\* of a final_response, in that order.
C11_Witness ==
  /\ Len(messages) = 3
  /\ messages[1].type = "status" /\ messages[1].timestamp = 1
  /\ messages[2].timestamp = 2 /\ ~IsSynthetic(messages[2])
  /\ messages[3].timestamp = 2 /\ IsSynthetic(messages[3])
  /\ lastEvent.kind = "final_response"

\* --------------------------------------------------------------- C12
Teardowns == {"unmount", "resubscribe"}

\* C12: teardown (the effect cleanup, eventSource.close()) is safe in every
\* state of the connection (connecting, open, already closed by onerror): it
\* is defined there, leaves the connection closed, adds no transcript entry
\* and changes neither flag nor error state, and closing once more changes
\* nothing.
C12_TeardownIdempotent ==
  [][ lastEvent'.kind \in Teardowns /\ (mounted' # mounted \/ taskId' # taskId)
      => /\ lastEvent'.source \in DOMAIN sources
         /\ sources[lastEvent'.source].readyState \in {"connecting", "open", "closed"}
         /\ sources'[lastEvent'.source].readyState = "closed"
         /\ Close(sources', lastEvent'.source) = sources'
         /\ Close(Close(sources, lastEvent'.source), lastEvent'.source)
              = Close(sources, lastEvent'.source)
         /\ messages' = messages
         /\ error' = error
         /\ isComplete' = isComplete ]_vars

\* C12 witness: the only connection was closed by onerror and the cleanup
\* then closed it a second time.
C12_Witness ==
  /\ lastEvent.kind = "unmount"
  /\ Len(sources) = 1
  /\ LogTransport \in console
  /\ sources[1].readyState = "closed"
  /\ messages = <<>>

\* C12 witness of the teardown of a connection that never opened.
C12_WitnessConnecting ==
  /\ lastEvent.kind = "unmount"
  /\ Len(sources) = 1
  /\ console = {}
  /\ sources[1].readyState = "closed"

\* --------------------------------------------------------------- C13
Live(c) == sources[c].readyState # "closed"

\* C13: at most one connection of the consumer is not closed, it is the one
\* the pending cleanup owns, and the connection that was active before an
\* unmount, a transport error or a re-subscription is closed afterwards.
C13_OneConnectionReleased ==
  /\ Cardinality({c \in DOMAIN sources : Live(c)}) <= 1
  /\ \A c \in DOMAIN sources : Live(c) => (mounted /\ c = cleanup /\ c = Len(sources))
  /\ ~mounted => \A c \in DOMAIN sources : ~Live(c)
  /\ lastEvent.kind \in Teardowns \cup {"transport_error", "error"}
       => ~Live(lastEvent.source)

\* C13 witness: after a re-subscription and the unmount, both connections
\* are closed.
C13_Witness ==
  /\ ~mounted
  /\ Len(sources) = 2
  /\ sources[1].readyState = "closed"
  /\ sources[2].readyState = "closed"
  /\ LogOpened \in console

\* --------------------------------------------------------------- C14
\* C14: a closed connection never leaves the closed state, no event handled
\* after it closed is one of its own (so nothing delivered on it changes
\* transcript, flag or error state), and a connection is created only by a
\* re-subscription with a task handle other than the current one.
C14_ClosedForGood ==
  [][ /\ \A c \in DOMAIN sources :
           sources[c].readyState = "closed"
           => /\ c \in DOMAIN sources'
              /\ sources'[c] = sources[c]
              /\ ( /\ lastEvent'.kind \in TransportEvents
                   /\ lastEvent'.source = c )
                 => UNCHANGED <<lastEvent, clock, messages, isComplete, error>>
      /\ Len(sources') # Len(sources)
           => /\ Len(sources') = Len(sources) + 1
              /\ lastEvent'.kind = "resubscribe"
              /\ taskId' # taskId
              /\ sources'[Len(sources')].taskId = taskId'
              /\ sources'[Len(sources')].readyState = "connecting" ]_vars

\* C14 witness: the first connection is closed and an event was handled on
\* the connection of the new task handle.
C14_Witness ==
  /\ Len(sources) = 2
  /\ sources[1].readyState = "closed"
  /\ sources[2].readyState = "open"
  /\ sources[1].taskId # sources[2].taskId
  /\ lastEvent.kind = "status_update"
  /\ lastEvent.source = 2
  /\ Len(messages) = 1

\* --------------------------------------------------------------- C15
TextFieldPresent(part) == part.kind = "object" /\ part.text # Undefined
TextNonEmpty(part) == part.kind = "object" /\ part.text \notin {Undefined, ""}

\* The `text` values of the text-bearing entries of items, in list order,
\* with a blank-line separator between neighbours; an entry bears text when
\* the field is present (withEmpty) or when it is a non-empty string.
RECURSIVE JoinedTexts(_, _)
JoinedTexts(items, withEmpty) ==
  IF items = <<>> THEN <<>>
  ELSE LET rest == JoinedTexts(Tail(items), withEmpty)
           bears == IF withEmpty THEN TextFieldPresent(Head(items))
                                 ELSE TextNonEmpty(Head(items))
       IN  IF ~bears THEN rest
           ELSE IF rest = <<>> THEN <<Head(items).text>>
           ELSE <<Head(items).text, JoinSeparator>> \o rest

\* The text entry a status_update or final_response step appended, if any.
TextEntryAdded ==
  /\ lastEvent'.kind \in {"status_update", "final_response"}
  /\ Added(messages, messages') # <<>>
  /\ ~IsSynthetic(Added(messages, messages')[1])

\* C15 (as claimed): the content of the appended text entry is exactly the
\* `text` values of the entries on which a `text` field is present, in list
\* order, joined by a blank line.
C15_JoinOfPresentTexts ==
  [][ TextEntryAdded
      => Added(messages, messages')[1].content
           = JoinedTexts(ItemsOf(lastEvent'.data), TRUE) ]_vars

\* C15 (amended): the content of the appended text entry is exactly the
\* `text` values of the entries whose `text` is a non-empty string, in list
\* order, joined by a blank line; entries without a `text` field or with an
\* empty one contribute nothing, not even a separator.
C15_JoinOfNonEmptyTexts ==
  [][ TextEntryAdded
      => /\ Added(messages, messages')[1].content
              = JoinedTexts(ItemsOf(lastEvent'.data), FALSE)
         /\ Added(messages, messages')[1].content # <<>> ]_vars

\* C15 witness: two fragments and a file reference, joined in list order.
C15_Witness ==
  /\ lastEvent.kind = "status_update"
  /\ lastEvent.data.items = <<TextB, TextA>>
  /\ Len(messages) = 1
  /\ messages[1].content = <<"b", JoinSeparator, "a">>

\* C15 witness: the file reference contributes nothing to the text entry.
C15_WitnessFile ==
  /\ lastEvent.kind = "final_response"
  /\ lastEvent.data.items = <<JsonLeads, TextB>>
  /\ Len(messages) = 2
  /\ messages[1].content = <<"b">>

\* --------------------------------------------------------------- C16
KindOfEntry(k) ==
  IF k = "status_update" THEN "status"
  ELSE IF k = "final_response" THEN "final"
  ELSE IF k = "error" THEN "error"
  ELSE "none"

\* C16: every entry a step appends has the kind of the event handled
\* (status_update: status, final_response: final for the text and the
\* synthetic entry, error: error), and no other kind is ever in the
\* transcript.
C16_KindMatchesEvent ==
  /\ [](\A i \in 1..Len(messages) : messages[i].type \in {"status", "final", "error"})
  /\ [][ \A i \in 1..Len(Added(messages, messages')) :
           Added(messages, messages')[i].type = KindOfEntry(lastEvent'.kind) ]_vars

\* C16 witness: an error entry after the two final entries of a
\* final_response.
C16_Witness ==
  /\ Len(messages) = 3
  /\ messages[1].type = "final" /\ ~IsSynthetic(messages[1])
  /\ messages[2].type = "final" /\ IsSynthetic(messages[2])
  /\ messages[3].type = "error"
  /\ lastEvent.kind = "error"

C18_RejectedSubmission ==
  /\ [](mounted \/ sources # <<>> =>
          /\ intake.response.kind = "http"
          /\ intake.response.ok
          /\ intake.pushed = {intake.response.body.id}
          /\ Len(sources) = 1
          /\ sources[1].taskId = intake.response.body.id)
  /\ [][ (/\ intake.pc = "awaiting"
          /\ intake'.pc # "awaiting"
          /\ intake'.response.kind = "http"
          /\ ~intake'.response.ok)
         => /\ intake'.error = SubmitFailedPrefix \o intake'.response.statusText
            /\ intake'.error # NoError
            /\ ~intake'.loading
            /\ intake'.pc = "idle"
            /\ intake'.pushed = {}
            /\ intake'.inflight = {}
            /\ ~mounted'
            /\ sources' = <<>> ]_vars

\* C18 witness: a 404 answer shown on the intake page, nothing opened.
C18_Witness ==
  /\ intake.response = Http(FALSE, "Not Found", Body("result", "t1"))
  /\ intake.error = "Failed to submit request: Not Found"
  /\ ~intake.loading
  /\ intake.pc = "idle"
  /\ intake.pushed = {}
  /\ ~mounted
  /\ sources = <<>>

\* --------------------------------------------------------------- C19
GatewayMessages == {m \in ErrorMessages : Truthy(m)} \cup {DefaultError}
HasErrorEntry == \E i \in 1..Len(messages) : messages[i].type = "error"
HasEntryFor(m) ==
  \E i \in 1..Len(messages) :
    messages[i].type = "error" /\ messages[i].content = <<ErrorPrefix, m>>

\* C19 as stated: whenever the error state is set, by a gateway-signaled
\* error or by a transport failure, the transcript contains an `error`
\* entry.
C19_ErrorStateHasEntry == error # NoError => HasErrorEntry

\* C19: whenever the error state holds a gateway-signaled message the
\* transcript contains the `error` entry carrying that message; a gateway
\* error with an object body appends exactly that entry, a transport
\* failure sets the connection-lost error state and appends nothing; every
\* entry rendered before either of them is still there afterwards.
C19_GatewayErrorHasEntry ==
  /\ [](/\ error \in GatewayMessages => HasEntryFor(error)
        /\ error \in {NoError, ConnectionLost} \cup GatewayMessages)
  /\ [][ /\ Extends(messages, messages')
         /\ error' # error => lastEvent'.kind \in {"error", "transport_error"}
         /\ Dispatched("error") /\ lastEvent'.data.shape = "object"
              => /\ Len(Added(messages, messages')) = 1
                 /\ Added(messages, messages')[1].type = "error"
                 /\ Added(messages, messages')[1].content
                      = <<ErrorPrefix, ErrorMsg(lastEvent'.data)>>
                 /\ error' \in {ErrorMsg(lastEvent'.data), ConnectionLost}
         /\ Dispatched("transport_error")
              => /\ messages' = messages
                 /\ error' \in {error, ConnectionLost} ]_vars

\* C19 witness: the gateway's message is the error state, its entry closes
\* the transcript and the entry rendered before it is still the first one.
C19_Witness ==
  /\ error = "quota exceeded"
  /\ Len(messages) = 2
  /\ messages[1].type = "final"
  /\ messages[2].type = "error"
  /\ messages[2].content = <<ErrorPrefix, "quota exceeded">>
  /\ lastEvent.kind = "error"

\* C19 witness: a transport failure shown with an empty transcript.
C19_WitnessTransport ==
  /\ error = ConnectionLost
  /\ messages = <<>>
  /\ lastEvent.kind = "transport_error"

\* --------------------------------------------------------------- C20
\* The error messages one event writes, in the order the code writes them:
\* the `error` listener runs before onerror.
ErrorWrites(kind, data, seenComplete) ==
  (IF kind = "error" /\ data.shape = "object" THEN <<ErrorMsg(data)>> ELSE <<>>)
    \o (IF kind \in {"error", "transport_error"} /\ ~seenComplete
          THEN <<ConnectionLost>> ELSE <<>>)

\* C20: there is one error slot with last-write-wins semantics: the slot
\* holds a single message, after an event that writes errors it holds the
\* last message written, and an event that writes none leaves it as it was.
C20_LastWriteWins ==
  /\ [](error \in {NoError, ConnectionLost} \cup GatewayMessages)
  /\ [][ LET c == lastEvent'.source
             writes == IF /\ lastEvent'.kind \in TransportEvents
                          /\ c \in DOMAIN sources
                          /\ sources[c].readyState # "closed"
                          /\ sources' # sources
                         THEN ErrorWrites(lastEvent'.kind, lastEvent'.data,
                                          sources[c].isComplete)
                         ELSE <<>>
         IN  error' = IF writes = <<>> THEN error ELSE writes[Len(writes)] ]_vars

\* C20 witness: the gateway's message was written (its entry is in the
\* transcript) and the later connection-lost write replaced it in the slot.
C20_Witness ==
  /\ error = ConnectionLost
  /\ HasEntryFor("quota exceeded")
  /\ lastEvent.kind = "error"
  /\ lastEvent.data.error = "quota exceeded"

\* C20 witness: a gateway message replaces an earlier connection-lost one.
C20_WitnessReplaced ==
  /\ error = DefaultError
  /\ HasEntryFor(DefaultError)
  /\ Len(sources) = 2
  /\ finalOn = {1}
  /\ lastEvent.kind = "error"
  /\ lastEvent.source = 2

\* --------------------------------------------------------------- C21
\* The number of setMessages calls one event issues.
TextAppends(data) ==
  IF data.shape # "bad_json" /\ ContentTruthy(extractTextContent(data)) THEN 1 ELSE 0
ArtifactAppends(data) ==
  IF /\ data.shape # "bad_json"
     /\ ~ArtifactFilterThrows(data)
     /\ JsonArtifacts(data) # <<>>
    THEN 1 ELSE 0
AppendsIssued(kind, data) ==
  CASE kind = "status_update" -> TextAppends(data)
    [] kind = "final_response" -> TextAppends(data) + ArtifactAppends(data)
    [] kind = "error" -> IF data.shape = "object" THEN 1 ELSE 0
    [] OTHER -> 0

\* C21: transcript updates are serialized: each append is applied to the
\* result of the previous one, also when one handler issues two of them
\* before a render, so no entry is lost or overwritten and the transcript
\* grows by exactly the number of appends issued.
C21_AppendsSerialized ==
  /\ [](\A i \in 1..Len(messages) : messages[i].id = i)
  /\ [][ /\ Extends(messages, messages')
         /\ Len(messages') = Len(messages)
              + (IF clock' # clock THEN AppendsIssued(lastEvent'.kind, lastEvent'.data)
                 ELSE 0) ]_vars

\* C21 witness: one final_response issued two appends back to back and both
\* entries are in the transcript, after the entry of the event before it.
C21_Witness ==
  /\ clock = 2
  /\ lastEvent.kind = "final_response"
  /\ AppendsIssued(lastEvent.kind, lastEvent.data) = 2
  /\ Len(messages) = 3
  /\ messages[1].type = "error"
  /\ messages[2].timestamp = 2
  /\ messages[3].timestamp = 2
  /\ ~IsSynthetic(messages[2])
  /\ IsSynthetic(messages[3])

\* --------------------------------------------------------------- C22
\* The parsed payload yields no text fragment: content is absent, is no
\* list, is the empty list, or is a list none of whose entries has text.
NoTextFragment(data) ==
  /\ data.shape = "object"
  /\ \/ data.content \in {"absent", "not_list"}
     \/ /\ data.content = "list"
        /\ \A i \in 1..Len(data.items) : ~Truthy(data.items[i].text)

\* C22: a status_update whose parsed payload yields zero text fragments
\* appends nothing: the transcript, the error state, the completion flag and
\* the connection state are unchanged.
C22_NoTextNoEntry ==
  [][ Dispatched("status_update") /\ NoTextFragment(lastEvent'.data)
        => /\ clock' = clock + 1
           /\ messages' = messages
           /\ error' = error
           /\ isComplete' = isComplete
           /\ sources' = sources
           /\ sources'[lastEvent'.source].readyState = "open" ]_vars

\* C22 witness: a status_update that carries only a file reference arrived
\* after one that carried text; the transcript still has that one entry.
C22_Witness ==
  /\ lastEvent.kind = "status_update"
  /\ lastEvent.data.items = <<PdfReport>>
  /\ clock = 2
  /\ Len(messages) = 1
  /\ messages[1].timestamp = 1
  /\ error = NoError
  /\ ~isComplete
  /\ sources[1].readyState = "open"

\* C22 witness: content that is no list.
C22_WitnessNotList ==
  /\ lastEvent.kind = "status_update"
  /\ lastEvent.data.content = "not_list"
  /\ clock = 1
  /\ messages = <<>>
  /\ sources[1].readyState = "open"

\* --------------------------------------------------------------- C23
\* No entry of the payload is a file whose MIME type is exactly
\* application/json (there may be no file entry, or no content list, at all).
NoJsonFile(data) ==
  /\ data.shape = "object"
  /\ data.content = "list"
       => \A i \in 1..Len(data.items) :
            ~(data.items[i].file.present /\ data.items[i].file.mime_type = JsonMime)

OnlyTextEntryAdded ==
  LET added == Added(messages, messages')
  IN  /\ Extends(messages, messages')
      /\ Len(added) <= 1
      /\ \A i \in 1..Len(added) :
           /\ ~IsSynthetic(added[i])
           /\ added[i].type = "final"
           /\ added[i].content = extractTextContent(lastEvent'.data).value

\* C23: a final_response whose file entries all declare MIME types other
\* than exactly application/json, or that has no file entries, appends no
\* synthetic artifact entry, yet still sets the completion flag; the only
\* entry it may append is the text entry.
C23_NonJsonStillCompletes ==
  [][ Dispatched("final_response") /\ NoJsonFile(lastEvent'.data)
        => OnlyTextEntryAdded /\ isComplete' ]_vars

\* The same for payloads on which the artifact filter does not throw.
C23_NonJsonStillCompletesNoThrow ==
  [][ ( /\ Dispatched("final_response")
        /\ NoJsonFile(lastEvent'.data)
        /\ ~ArtifactFilterThrows(lastEvent'.data) )
        => OnlyTextEntryAdded /\ isComplete' ]_vars

\* A PDF artifact next to a text: one text entry, the flag set.
C23_Witness ==
  /\ lastEvent.kind = "final_response"
  /\ lastEvent.data.items = <<TextA, PdfReport>>
  /\ Len(messages) = 1
  /\ messages[1].content = <<"a">>
  /\ isComplete

\* --------------------------------------------------------------- C24
\* C24: a transport-level error (an `error` event without payload) never
\* appends a transcript entry and never changes the completion flag; it can
\* only change the error state (to the connection-lost message) and the
\* connection state (to closed).
C24_TransportErrorStateOnly ==
  [][ Dispatched("transport_error")
        => /\ messages' = messages
           /\ isComplete' = isComplete
           /\ error' \in {error, ConnectionLost}
           /\ sources' = [sources EXCEPT ![lastEvent'.source].readyState = "closed"]
           /\ UNCHANGED <<mounted, taskId, clock, finalOn, intake>> ]_vars

\* C24 witness: the connection failed after a final_response; both entries
\* and the flag are as the final_response left them.
C24_Witness ==
  /\ lastEvent.kind = "transport_error"
  /\ isComplete
  /\ Len(messages) = 2
  /\ messages[1].type = "final"
  /\ IsSynthetic(messages[2])
  /\ error = ConnectionLost
  /\ sources[1].readyState = "closed"

\* C24 witness: the connection failed while connecting.
C24_WitnessConnecting ==
  /\ lastEvent.kind = "transport_error"
  /\ ~isComplete
  /\ messages = <<>>
  /\ LogOpened \notin console
  /\ sources[1].readyState = "closed"

\* --------------------------------------------------------------- C25
CountOfType(k) == Cardinality({i \in 1..Len(messages) : messages[i].type = k})

\* The most entries one event of a kind can append.
MaxAppends(kind) ==
  CASE kind \in {"status_update", "error"} -> 1
    [] kind = "final_response" -> 2
    [] OTHER -> 0

\* C25: each handled event appends a bounded number of entries: a
\* status_update at most 1, a final_response at most 2 (the text entry, then
\* the synthetic artifact entry), a named error at most 1, a transport
\* error, an open event and a teardown none; hence the transcript is never
\* longer than #status_update + 2 * #final_response + #error received.
C25_BoundedAppends ==
  /\ [](/\ Len(messages) <= received.status_update + 2 * received.final_response
                              + received.error
        /\ CountOfType("status") <= received.status_update
        /\ CountOfType("final") <= 2 * received.final_response
        /\ CountOfType("error") <= received.error
        /\ clock = received.status_update + received.final_response + received.error)
  /\ [][ LET added == Added(messages, messages')
         IN  /\ Extends(messages, messages')
             /\ Len(added) <= (IF received' # received THEN MaxAppends(lastEvent'.kind)
                               ELSE 0)
             /\ received' # received => lastEvent'.kind \in NamedEvents
             /\ Len(added) = 2 => ~IsSynthetic(added[1]) /\ IsSynthetic(added[2]) ]_vars

\* C25 witness: the bound is met: a final_response appended two entries and
\* a named error one.
C25_Witness ==
  /\ received = [status_update |-> 0, final_response |-> 1, error |-> 1]
  /\ Len(messages) = 3
  /\ CountOfType("final") = 2
  /\ CountOfType("error") = 1

\* C25 witness: two status_update events that appended nothing.
C25_WitnessBelow ==
  /\ received.status_update = 2
  /\ messages = <<>>

\* --------------------------------------------------------------- C26
\* C26: a re-subscription with a new task handle inside the same consumer
\* instance closes the old connection and opens a new one and resets
\* nothing: the transcript, the completion flag and the error state keep
\* their values; after the switch only the new connection delivers events.
C26_ResubscribeKeepsState ==
  /\ [](mounted => /\ cleanup = Len(sources)
                   /\ sources[cleanup].taskId = taskId
                   /\ \A c \in 1..(Len(sources) - 1) : sources[c].readyState = "closed")
  /\ [][ /\ taskId' # taskId
           => /\ lastEvent'.kind = "resubscribe"
              /\ messages' = messages
              /\ isComplete' = isComplete
              /\ error' = error
              /\ Len(sources') = Len(sources) + 1
              /\ sources'[Len(sources)].readyState = "closed"
              /\ sources'[Len(sources')] = NewSource(taskId', isComplete)
         /\ messages' # messages
           => /\ lastEvent'.source = Len(sources)
              /\ sources[lastEvent'.source].taskId = taskId
              /\ Extends(messages, messages') ]_vars

\* C26 witness: the switch happened after the first task completed; its two
\* entries, the flag and the error state are still there, the old connection
\* is closed and the new one is connecting.
C26_Witness ==
  /\ lastEvent.kind = "resubscribe"
  /\ taskId = "t2"
  /\ isComplete
  /\ Len(messages) = 2
  /\ error = ConnectionLost
  /\ sources[1].readyState = "closed"
  /\ sources[2] = NewSource("t2", TRUE)

\* C26 witness: an entry of the new task follows the entry of the old one.
C26_WitnessNextTask ==
  /\ Len(sources) = 2
  /\ lastEvent.kind = "status_update"
  /\ lastEvent.source = 2
  /\ Len(messages) = 2
  /\ messages[1].timestamp = 1
  /\ messages[2].timestamp = 2
  /\ sources[1].readyState = "closed"

\* --------------------------------------------------------------- C27
\* The error state is never the empty message and is never cleared.
ErrorNeverEmptyNorCleared ==
  /\ [](error # "")
  /\ [][error # NoError => error' # NoError]_vars

\* The gateway error's body has no `error` member, or an empty one.
NoErrorField(data) == data.shape = "object" /\ ~Truthy(data.error)

\* C27: the error state is never an empty message and is never cleared: it
\* starts unset, a gateway `error` event whose parsed body has a missing or
\* empty `error` field is surfaced with the fallback text 'An error
\* occurred' in both the error state and the appended entry, and once the
\* error state is set no operation returns it to unset.
C27_FallbackSurfaced ==
  /\ error = NoError
  /\ ErrorNeverEmptyNorCleared
  /\ [][ Dispatched("error") /\ NoErrorField(lastEvent'.data)
           => /\ error' = DefaultError
              /\ Added(messages, messages')
                   = <<Message(Len(messages) + 1, <<ErrorPrefix, DefaultError>>,
                               clock', "error")>> ]_vars

\* The same, with the error state as the listener and onerror together
\* leave it.
C27_FallbackInEntry ==
  /\ error = NoError
  /\ ErrorNeverEmptyNorCleared
  /\ [][ Dispatched("error") /\ NoErrorField(lastEvent'.data)
           => /\ error' = IF sources[lastEvent'.source].isComplete
                            THEN DefaultError ELSE ConnectionLost
              /\ Added(messages, messages')
                   = <<Message(Len(messages) + 1, <<ErrorPrefix, DefaultError>>,
                               clock', "error")>> ]_vars

\* A body {"error": ""} was received: the entry carries the fallback text.
C27_Witness ==
  /\ lastEvent.kind = "error"
  /\ lastEvent.data.error = ""
  /\ lastEvent.data.shape = "object"
  /\ Len(messages) = 1
  /\ messages[1].content = <<ErrorPrefix, DefaultError>>
  /\ error = ConnectionLost

\* --------------------------------------------------------------- C28
\* The services input holds an item that is not blank: a character that is
\* neither the separator nor whitespace.
HasService(input) == \E i \in 1..Len(input) : input[i] \notin {",", " "}

\* The form as a submission needs it.
ValidForm(page) ==
  /\ page.formData.freelancer_type # <<>>
  /\ page.formData.location # <<>>
  /\ HasService(page.servicesInput)

WellFormedItems(items) ==
  \A i \in 1..Len(items) :
    /\ items[i] # <<>>
    /\ Head(items[i]) # " "
    /\ items[i][Len(items[i])] # " "
    /\ \A j \in 1..Len(items[i]) : items[i][j] # ","

\* C28: the intake form sends a task submission only when, after splitting
\* the comma-separated inputs and dropping blank items, the freelancer type
\* and the location are non-empty and at least one service remains;
\* otherwise no request is sent, the error 'Please fill in all required
\* fields' is shown and the loading flag is false again.
C28_SubmitOnlyIfValid ==
  /\ [](/\ intake.last = "submit"
          => IF ValidForm(intake)
               THEN /\ intake.pc = "awaiting"
                    /\ intake.loading
                    /\ intake.error = NoError
                    /\ Cardinality(intake.inflight) = 1
               ELSE /\ intake.pc = "idle"
                    /\ ~intake.loading
                    /\ intake.error = ValidationError
                    /\ intake.inflight = {}
        /\ \A d \in intake.inflight :
             /\ d.freelancer_type # <<>>
             /\ d.location # <<>>
             /\ Len(d.services) >= 1
             /\ WellFormedItems(d.services)
             /\ WellFormedItems(d.target_industries)
             /\ WellFormedItems(d.selling_points))
  /\ [][ intake'.inflight # intake.inflight /\ intake'.inflight # {}
           => /\ intake'.last = "submit"
              /\ ~intake.loading
              /\ ValidForm(intake) ]_vars

\* C28 witness: the services input was blanks and separators only; nothing
\* was sent.
C28_Witness ==
  /\ intake.last = "submit"
  /\ intake.formData.freelancer_type = <<"a">>
  /\ intake.formData.location = <<"a">>
  /\ intake.servicesInput = <<" ", ",", " ">>
  /\ intake.error = ValidationError
  /\ ~intake.loading
  /\ intake.inflight = {}

\* C28 witness: a request was sent with the two services of " a,b".
C28_WitnessSent ==
  /\ intake.last = "submit"
  /\ intake.servicesInput = <<" ", "a", ",", "b">>
  /\ \E d \in intake.inflight : d.services = << <<"a">>, <<"b">> >>
  /\ intake.loading

\* --------------------------------------------------------------- C29
\* The attempt ended with an error shown, loading reset and no navigation.
EndedWithError ==
  /\ intake.pc = "idle"
  /\ intake.error # NoError
  /\ intake.error # ""
  /\ ~intake.loading
  /\ intake.pushed = {}
  /\ ~mounted

\* The attempt ended with the navigation to /leads/<id>, <id> the `id` member
\* of the gateway's answer.
EndedWithNavigation ==
  /\ intake.pc = "navigated"
  /\ intake.response.kind = "http"
  /\ intake.response.ok
  /\ intake.response.body.shape = "result"
  /\ intake.pushed = {intake.response.body.id}
  /\ intake.error = NoError

AttemptOutcomes(handles) ==
  /\ intake.last = "submit" /\ intake.pc = "awaiting"
       => intake.error = NoError /\ intake.loading /\ intake.pushed = {}
  /\ intake.last = "submit" /\ intake.pc # "awaiting" => EndedWithError
  /\ intake.last = "response"
       => \/ EndedWithError
          \/ EndedWithNavigation /\ intake.response.body.id \in handles
  /\ intake.loading /\ intake.pc # "awaiting" => intake.pushed # {}
  /\ mounted => EndedWithNavigation /\ taskId \in intake.pushed

\* C29: every intake submit attempt first clears the previous error and sets
\* loading, and then ends in exactly one of two outcomes: the navigation to
\* the results view for the task handle the gateway returned, the error
\* staying unset, or an error message set, loading reset to false and no
\* navigation; the form is never left loading without navigation once the
\* attempt has finished.
C29_TwoOutcomes == AttemptOutcomes(TaskIds)

\* The same, the value navigated to being whatever `data.result.id` yields,
\* the text `undefined` included.
C29_TwoOutcomesAnyId == AttemptOutcomes(TaskIds \cup {Undefined})

\* An attempt that ended with the navigation to /leads/t2.
C29_Witness ==
  /\ intake.last = "response"
  /\ intake.pushed = {"t2"}
  /\ intake.loading
  /\ intake.error = NoError
  /\ mounted
  /\ taskId = "t2"

\* --------------------------------------------------------------- C30
\* C30: in the chat component a blank (whitespace-only) submission changes
\* nothing, while every non-blank submission appends one user message
\* immediately, clears the input and is eventually followed by exactly one
\* simulated assistant message; the assistant messages are never more than
\* the user messages, the list is append-only, and once all timers have
\* fired the two counts are equal, for any interleaving of submissions and
\* timer firings.
C30_ChatPairsMessages ==
  /\ [](/\ AssistantCount(chat) <= UserCount(chat)
        /\ UserCount(chat) = AssistantCount(chat) + chat.timers
        /\ chat.timers = 0 => AssistantCount(chat) = UserCount(chat)
        /\ \A i \in 1..Len(chat.messages) :
             chat.messages[i].role = "assistant"
               => chat.messages[i].content = <<SimulatedResponse>>)
  /\ [][ /\ Extends(chat.messages, chat'.messages)
         /\ Len(chat'.messages) <= Len(chat.messages) + 1
         /\ chat'.last = "blank"
              => /\ \A i \in 1..Len(chat.input) : chat.input[i] = " "
                 /\ chat'.messages = chat.messages
                 /\ chat'.input = chat.input
                 /\ chat'.timers = chat.timers
                 /\ chat'.isListening = chat.isListening
         /\ chat'.last = "submit"
              => /\ \E i \in 1..Len(chat.input) : chat.input[i] # " "
                 /\ chat'.messages
                      = Append(chat.messages, ChatMessage("user", Trim(chat.input)))
                 /\ chat'.input = <<>>
                 /\ chat'.timers = chat.timers + 1
         /\ chat'.timers < chat.timers
              => /\ chat'.timers = chat.timers - 1
                 /\ chat'.messages
                      = Append(chat.messages, ChatMessage("assistant", <<SimulatedResponse>>)) ]_vars
  /\ \A k \in 1..MaxSubmits : (UserCount(chat) >= k) ~> (AssistantCount(chat) >= k)

\* C30 witness: two submissions before any timer fired, then both answers.
C30_Witness ==
  /\ Len(chat.messages) = 4
  /\ chat.messages[1] = ChatMessage("user", <<"a">>)
  /\ chat.messages[2] = ChatMessage("user", <<"b">>)
  /\ chat.messages[3].role = "assistant"
  /\ chat.messages[4].role = "assistant"
  /\ chat.timers = 0
  /\ chat.input = <<>>

\* C30 witness: Enter on a whitespace-only input, one answer still pending.
C30_WitnessBlank ==
  /\ chat.last = "blank"
  /\ chat.input = <<" ">>
  /\ Len(chat.messages) = 1
  /\ chat.timers = 1

====
